---- MODULE Spec2Model ----
(***************************************************************************)
(* Model of the Google Photos -> Immich album sync.                        *)
(*   pkg/app/app.go              App.processAlbum, App.processItem         *)
(*   pkg/googlephotos/client.go  Client.Do (429 retry loop)                *)
(*   pkg/googlephotos/scraper.go DownloadMedia, extensionFromContentType   *)
(* Strings are sequences of one-character strings, so that ReplaceAll,     *)
(* LastIndex and slicing are computed as the Go code computes them.        *)
(* Asset identifiers are positive numbers; the empty identifier "" is      *)
(* EmptyID. The zero time.Time is ZeroTime.                                *)
(***************************************************************************)
EXTENDS Integers, Sequences, FiniteSets, TLC

\* ------------------------------------------------------------------ bounds
MaxItems == 2
MaxWorkers == 3
MaxPasses == 2
MaxAlbums == 2
MaxSources == 2
MaxTime == 4
MaxAlbumWorkers == 1
MaxSlots == 4
MaxSkew == 1
MaxScrapes == 2
MaxIdLen == 2
MaxPageLen == 5

\* --------------------------------------------------------- string helpers
\* the empty asset identifier "" (app.go 304) and the zero time.Time (scraper.go 247)
EmptyID == 0
ZeroTime == 0

\* strings.ReplaceAll(s, old, new) for one-character old and new
ReplaceAll(s, old, new) ==
    [i \in 1..Len(s) |-> IF s[i] = old THEN new ELSE s[i]]

\* bug variant: the first occurrence is taken
LastIndex_first(s, c) ==
    IF \E i \in 1..Len(s) : s[i] = c
    THEN CHOOSE i \in 1..Len(s) : s[i] = c /\ \A j \in 1..(i - 1) : s[j] # c
    ELSE 0

\* strings.LastIndex(s, c), 1-based; 0 stands for Go's -1
LastIndex(s, c) ==
    IF \E i \in 1..Len(s) : s[i] = c
    THEN CHOOSE i \in 1..Len(s) : s[i] = c /\ \A j \in (i+1)..Len(s) : s[j] # c
    ELSE 0

\* name[:dot] when a '.' is present (app.go 170-173)
StripExt(name) ==
    IF LastIndex(name, ".") # 0
    THEN SubSeq(name, 1, LastIndex(name, ".") - 1)
    ELSE name

\* safeId / baseName of processItem (app.go 249-251)
BaseName(id) ==
    <<"g", "p", "_">> \o ReplaceAll(ReplaceAll(id, "/", "_"), ":", "_")

\* ------------------------------------------------------ content types
\* strings.HasPrefix(strings.ToLower(ct), "video/")
IsVideoType(ct) == ct \in {"video/mp4", "Video/x-foo"}

\* extensionFromContentType (scraper.go 262-291)
extensionFromContentType(ct) ==
    CASE ct = "image/jpeg" -> <<".", "j", "p", "g">>
      [] ct = "image/png"  -> <<".", "p", "n", "g">>
      [] ct = "video/mp4"  -> <<".", "m", "p", "4">>
      [] OTHER -> IF IsVideoType(ct) THEN <<".", "m", "p", "4">>
                                     ELSE <<".", "j", "p", "g">>

\* ------------------------------------------------------- the source album
\* Photo k of the shared album (Photo struct, scraper.go 21-30). Photos 1 and
\* 3 have ids that differ only in '/' against ':'; photo 2 has no timestamp.
PhotoID(k) ==
    CASE k % 4 = 1 -> <<"a", "/", "b">>
      [] k % 4 = 2 -> <<"c">>
      [] k % 4 = 3 -> <<"a", ":", "b">>
      [] OTHER     -> <<"d", ".", "e">>

Photo(k) ==
    [ID |-> PhotoID(k), URL |-> k, TakenAt |-> IF k % 2 = 1 THEN k ELSE ZeroTime]

SourcePhotos == [k \in 1..MaxItems |-> Photo(k)]

\* the bytes served at a photo URL: photo 3 has the same bytes as photo 1
MediaAt(url) == IF url % 4 = 3 THEN url - 2 ELSE url

\* the Content-Type the source declares for a photo URL: even photos are videos
ContentTypeAt(url) == IF url % 2 = 0 THEN "video/mp4" ELSE "image/jpeg"

Items == 1..MaxItems
Workers == 1..MaxWorkers

\* processResult (app.go 112-116); Error "nil" is a nil error
Result(id, uploaded, err) == [ID |-> id, WasUploaded |-> uploaded, Error |-> err]

\* ---------------------------------------------------- the scraped payload
\* Times are counted in units of 100 seconds since the Unix epoch.
\* 946684800000 ms (scraper.go 233), 24*time.Hour, the first index of the
\* scan (i := 2, 1-based here), and the earliest reading of time.Now()
Floor == 9466848
Day == 864
FirstSlot == 3
NowBase == 17000000
Nows == NowBase..(NowBase + MaxSkew)

\* values decoded by json.Unmarshal into interface{}: a number is a float64
\* (frac: the value is n + 1/2), a string, or null
Num(n) == [t |-> "num", n |-> n, frac |-> FALSE, s |-> ""]
NumFrac(n) == [t |-> "num", n |-> n, frac |-> TRUE, s |-> ""]
Str(s) == [t |-> "str", n |-> 0, frac |-> FALSE, s |-> s]
Null == [t |-> "null", n |-> 0, frac |-> FALSE, s |-> ""]

\* a slot of an item array: a scalar, or a nested array of scalars
Direct(x) == [isArr |-> FALSE, v |-> <<x>>]
Arr(q) == [isArr |-> TRUE, v |-> q]

\* the times that occur in payloads
TsValues == {Floor, Floor + 1, NowBase, NowBase + Day - 1, NowBase + Day}

\* strconv.ParseInt(val, 10, 64) on the strings that occur in payloads
ParseInt(s) ==
    IF \E n \in TsValues : ToString(n) = s
    THEN [ok |-> TRUE, i |-> CHOOSE n \in TsValues : ToString(n) = s]
    ELSE [ok |-> FALSE, i |-> 0]

\* extractInt (scraper.go 156-166): int64(val) drops the fraction
extractInt(x) ==
    CASE x.t = "str" -> ParseInt(x.s)
      [] x.t = "num" -> [ok |-> TRUE, i |-> x.n]
      [] OTHER -> [ok |-> FALSE, i |-> 0]

\* bug variant: the floor itself is accepted
Plausible_inclusive(t, now) == t >= Floor /\ t < now + Day

\* t > 946684800000 && time.UnixMilli(t).Before(now.Add(24*time.Hour))
Plausible(t, now) == t > Floor /\ t < now + Day

\* the value extractInt is applied to in a slot: metaArr[0] of a non-empty
\* nested array, or the slot itself (scraper.go 230-231, 239)
Probed(slot) ==
    IF slot.isArr
    THEN IF Len(slot.v) > 0 THEN extractInt(slot.v[1]) ELSE [ok |-> FALSE, i |-> 0]
    ELSE extractInt(slot.v[1])

\* the candidates collected from slot i onward (scraper.go 229-244)
RECURSIVE Candidates(_, _, _)
Candidates(itemArr, i, now) ==
    IF i > Len(itemArr) THEN <<>>
    ELSE (IF Probed(itemArr[i]).ok /\ Plausible(Probed(itemArr[i]).i, now)
          THEN <<Probed(itemArr[i]).i>> ELSE <<>>)
         \o Candidates(itemArr, i + 1, now)

\* the oldest of the candidates (scraper.go 251-256)
RECURSIVE Oldest(_, _)
Oldest(best, rest) ==
    IF rest = <<>> THEN best
    ELSE Oldest(IF Head(rest) < best THEN Head(rest) ELSE best, Tail(rest))

\* bug variant: an item without a candidate is dated now
extractTimestamp_defaultNow(itemArr, now) ==
    IF Len(Candidates(itemArr, FirstSlot, now)) = 0 THEN now
    ELSE Oldest(Head(Candidates(itemArr, FirstSlot, now)),
                Tail(Candidates(itemArr, FirstSlot, now)))

\* extractTimestamp (scraper.go 224-259)
extractTimestamp(itemArr, now) ==
    IF Len(Candidates(itemArr, FirstSlot, now)) = 0 THEN ZeroTime
    ELSE Oldest(Head(Candidates(itemArr, FirstSlot, now)),
                Tail(Candidates(itemArr, FirstSlot, now)))

\* v.(string) of a slot, "" when the assertion fails (scraper.go 176, 184)
AsString(slot) == IF ~slot.isArr /\ slot.v[1].t = "str" THEN slot.v[1].s ELSE ""

\* mediaArr[k].(float64) as an int, 0 otherwise (scraper.go 185-190)
Dimension(mediaArr, k) ==
    IF Len(mediaArr) >= 3 /\ mediaArr[k].t = "num" THEN mediaArr[k].n ELSE 0

\* the first non-empty string from index 3 on (scraper.go 196-202)
RECURSIVE Description(_, _)
Description(itemArr, i) ==
    IF i > Len(itemArr) THEN ""
    ELSE IF AsString(itemArr[i]) # "" THEN AsString(itemArr[i])
    ELSE Description(itemArr, i + 1)

\* the Photo built from one element of the list (scraper.go 173-214); <<>>
\* when the element is skipped
PhotoOf(itemArr, now) ==
    IF Len(itemArr) < 2 \/ ~itemArr[2].isArr \/ Len(itemArr[2].v) < 1 THEN <<>>
    ELSE IF AsString(Direct(itemArr[2].v[1])) = "" THEN <<>>
    ELSE << [ID |-> AsString(itemArr[1]),
             URL |-> AsString(Direct(itemArr[2].v[1])),
             Width |-> Dimension(itemArr[2].v, 2),
             Height |-> Dimension(itemArr[2].v, 3),
             TakenAt |-> extractTimestamp(itemArr, now),
             Description |-> Description(itemArr, FirstSlot + 1)] >>

RECURSIVE PhotosOf(_, _)
PhotosOf(list, now) ==
    IF list = <<>> THEN <<>>
    ELSE PhotoOf(Head(list), now) \o PhotosOf(Tail(list), now)

\* the title of the page: "|" stands for the date separator, "@" for the
\* camera emoji, "&amp;" for an HTML entity; <<>> is a page without og:title
DefaultTitle == <<"Google Photos Album">>

\* html.UnescapeString (scraper.go 59)
UnescapeString(t) == ReplaceAll(t, "&amp;", "&")

\* dateSuffixRe.ReplaceAllString(title, "") for `\s*|.*$` (scraper.go 61-62):
\* the leftmost match starts at the blanks before the first separator
RECURSIVE BlanksBefore(_, _)
BlanksBefore(t, i) == IF i > 1 /\ t[i - 1] = " " THEN BlanksBefore(t, i - 1) ELSE i

FirstIndex(t, c) ==
    IF \E i \in 1..Len(t) : t[i] = c
    THEN CHOOSE i \in 1..Len(t) : t[i] = c /\ \A j \in 1..(i - 1) : t[j] # c
    ELSE 0

CutDateSuffix(t) ==
    IF FirstIndex(t, "|") = 0 THEN t
    ELSE SubSeq(t, 1, BlanksBefore(t, FirstIndex(t, "|")) - 1)

\* strings.TrimSpace (scraper.go 63)
RECURSIVE TrimSpace(_)
TrimSpace(t) ==
    IF t = <<>> THEN t
    ELSE IF Head(t) = " " THEN TrimSpace(Tail(t))
    ELSE IF t[Len(t)] = " " THEN TrimSpace(SubSeq(t, 1, Len(t) - 1))
    ELSE t

\* strings.TrimSuffix(title, " @") (scraper.go 64)
TrimSuffix(t) ==
    IF Len(t) >= 2 /\ t[Len(t) - 1] = " " /\ t[Len(t)] = "@"
    THEN SubSeq(t, 1, Len(t) - 2) ELSE t

\* the title of the album (scraper.go 50-64)
CleanTitle(raw) ==
    TrimSuffix(TrimSpace(CutDateSuffix(UnescapeString(
        IF raw = <<>> THEN DefaultTitle ELSE raw))))

\* the Album ScrapeAlbum returns for a page read at time now (scraper.go 216-220)
ParseAlbum(pg, now) ==
    [Title |-> CleanTitle(pg.title), Photos |-> PhotosOf(pg.list, now)]

VARIABLES
    cfg,            \* a.Cfg: Workers, StrictMetadata, SkipVideos
    passLimit,      \* number of passes the scheduler runs in this behaviour
    passNo,         \* the pass in progress
    library,        \* destination: assets [Id, OriginalFileName]
    immichAlbums,   \* destination: album id -> set of asset ids
    pc,             \* position of processAlbum
    album,          \* album.Photos of this pass
    albumId,        \* resolved Immich album id, 0 is ""
    existingFiles,  \* baseName -> asset id
    numWorkers,
    jobs, jobsClosed, fed,
    results, resultsClosed,
    wpc, wjob, wvideo, wext, wres,   \* per worker goroutine
    tally,          \* processed, added, skipped, failed, newAssetIds
    addCalls,       \* AddAssetsToAlbum calls of this pass: the id lists passed
    \* history of the pass, per item
    taken, headCalls, getCalls, uploadCalls, probedVideo, buffered, outcomes,
    dupReported,    \* items the destination reported as duplicates
    \* history across passes
    uploadedOK, reuploaded,
    \* Client.Do
    doPc, doI, doResp, doErr, doTrace, doSlept,
    \* DownloadMedia on its own: position, probe response, fetch response, return
    dmPc, dmProbe, dmFetch, dmRet,
    \* App.Run: the scheduler over the configured albums, time in minutes
    runCfg,         \* SyncInterval of each album, albumWorkers
    clock,          \* time.Now()
    nextRun,        \* nextRun[ac.URL]
    runPos, runPc,  \* album the loop is at (MaxSources+1: the sleep), its position
    active,         \* number of processAlbum calls executing, per album
    passPc,         \* position of each album's processAlbum call
    \* history of the scheduler
    passFailed, passUploads, passAdds, checkedAt, roundRan, lastEnd, attempts,
    \* extractTimestamp on its own: the item array, time.Now(), the result
    tsItem, tsNow, tsOut, tsPc,
    \* ScrapeAlbum run repeatedly on one page: the page, time.Now(), the
    \* Albums returned so far with the time of each run
    page, scNow, scOut,
    \* the file name of an item: id, Content-Type, position, the name the
    \* destination stores, the key of the index
    nmId, nmCt, nmPc, nmName, nmKey,
    \* the payload scan of ScrapeAlbum on its own: the page text after the
    \* anchor, position, the outcome
    bsText, bsPc, bsOut

passVars == <<pc, album, albumId, existingFiles, numWorkers, jobs, jobsClosed, fed,
              results, resultsClosed, wpc, wjob, wvideo, wext, wres, tally, addCalls>>
histVars == <<taken, headCalls, getCalls, uploadCalls, probedVideo, buffered, outcomes,
              dupReported>>
destVars == <<library, immichAlbums>>
doVars == <<doPc, doI, doResp, doErr, doTrace, doSlept>>
dmVars == <<dmPc, dmProbe, dmFetch, dmRet>>
runVars == <<runCfg, clock, nextRun, runPos, runPc, active, passPc>>
runHist == <<passFailed, passUploads, passAdds, checkedAt, roundRan, lastEnd, attempts>>
tsVars == <<tsItem, tsNow, tsOut, tsPc>>
scVars == <<page, scNow, scOut>>
nmVars == <<nmId, nmCt, nmPc, nmName, nmKey>>
bsVars == <<bsText, bsPc, bsOut>>
pureVars == <<tsVars, scVars, nmVars, bsVars>>
auxVars == <<dmVars, runVars, runHist, pureVars>>
vars == <<cfg, passLimit, passNo, destVars, passVars, histVars, uploadedOK, reuploaded, doVars,
          auxVars>>

\* ------------------------------------------------------------ processItem
\* bug variant: the index lookup never hits
AlreadyInAlbum_never(p, existing) == FALSE

\* the O(1) check against the pre-fetched album assets (app.go 254)
AlreadyInAlbum(p, existing) == BaseName(p.ID) \in DOMAIN existing

\* bug variant: the strict-metadata policy is ignored
StrictSkip_ignored(c, p) == FALSE

\* a.Cfg.StrictMetadata && p.TakenAt.IsZero() (app.go 259)
StrictSkip(c, p) == c.StrictMetadata /\ p.TakenAt = ZeroTime

\* isVideo && a.Cfg.SkipVideos (app.go 272)
VideoSkip(c, isVideo) == isVideo /\ c.SkipVideos

Skipped == Result(EmptyID, FALSE, "nil")

\* bug variant: the empty-id check of app.go 304-306 is missing
UploadResult_noEmptyCheck(uploadedId, isDup, err) ==
    IF err THEN Result(EmptyID, FALSE, "upload")
    ELSE IF isDup THEN Result(uploadedId, FALSE, "nil")
    ELSE Result(uploadedId, TRUE, "nil")

\* what processItem returns after UploadAssetStream returned (app.go 301-314)
UploadResult(uploadedId, isDup, err) ==
    IF err THEN Result(EmptyID, FALSE, "upload")
    ELSE IF uploadedId = EmptyID THEN Result(EmptyID, FALSE, "emptyid")
    ELSE IF isDup THEN Result(uploadedId, FALSE, "nil")
    ELSE Result(uploadedId, TRUE, "nil")

\* the SyncOutcome a processResult stands for (app.go 223-231)
OutcomeOf(res) ==
    IF res.Error # "nil" THEN "Failed"
    ELSE IF res.WasUploaded THEN "Uploaded"
    ELSE IF res.ID # EmptyID THEN "Deduplicated"
    ELSE "Skipped"

\* ------------------------------------------------- collecting the results
\* bug variant: only uploaded results contribute their id
ShouldAppend_uploadedOnly(res) == res.WasUploaded

\* res.ID != "" (app.go 232)
ShouldAppend(res) == res.ID # EmptyID

\* bug variant: a duplicate is counted as skipped
TallyResult_dedupSkipped(t, res) ==
    LET t1 == [t EXCEPT !.processed = @ + 1] IN
    IF res.Error # "nil" THEN [t1 EXCEPT !.failed = @ + 1]
    ELSE LET t2 == IF res.WasUploaded THEN [t1 EXCEPT !.added = @ + 1]
                   ELSE [t1 EXCEPT !.skipped = @ + 1]
         IN  IF ShouldAppend(res)
             THEN [t2 EXCEPT !.newAssetIds = Append(@, res.ID)]
             ELSE t2

\* one iteration of the loop over results (app.go 222-235)
TallyResult(t, res) ==
    LET t1 == [t EXCEPT !.processed = @ + 1] IN
    IF res.Error # "nil" THEN [t1 EXCEPT !.failed = @ + 1]
    ELSE LET t2 == IF res.WasUploaded THEN [t1 EXCEPT !.added = @ + 1]
                   ELSE IF res.ID = EmptyID THEN [t1 EXCEPT !.skipped = @ + 1]
                   ELSE t1
         IN  IF ShouldAppend(res)
             THEN [t2 EXCEPT !.newAssetIds = Append(@, res.ID)]
             ELSE t2

RECURSIVE CollectAll(_, _)
CollectAll(t, rs) ==
    IF rs = <<>> THEN t ELSE CollectAll(TallyResult(t, Head(rs)), Tail(rs))

EmptyTally == [processed |-> 0, added |-> 0, skipped |-> 0, failed |-> 0,
               newAssetIds |-> <<>>]

\* bug variant: the worker count is not capped by the number of items
ClampWorkers_noCeiling(n, total) == IF n < 1 THEN 1 ELSE n

\* numWorkers clamped to 1..total (app.go 188-194)
ClampWorkers(n, total) ==
    LET atLeast1 == IF n < 1 THEN 1 ELSE n
    IN  IF atLeast1 > total THEN total ELSE atLeast1

\* ------------------------------------------------------- the destination
\* assets of an album as GetAlbum returns them
AlbumAssets(lib, albums, id) == {a \in lib : a.Id \in albums[id]}

\* existingFiles as built from albumDetails.Assets (app.go 165-175)
BuildExistingFiles(assets) ==
    [n \in {StripExt(a.OriginalFileName) : a \in assets} |->
        LET ids == {a.Id : a \in {b \in assets : StripExt(b.OriginalFileName) = n}}
        IN  CHOOSE i \in ids : \A j \in ids : j <= i]

NoFiles == [n \in {} |-> EmptyID]

ForeignName == <<"I", "M", "G", ".", "j", "p", "g">>
DerivedName(k) == BaseName(PhotoID(k)) \o extensionFromContentType(ContentTypeAt(k))

\* destinations a pass can start from: nothing synced; an album that holds
\* photo 1 under its derived name while the bytes of photo 2 are known under
\* another name; an empty album while the bytes of photo 2 are known
DestScenarios ==
    { [library |-> {}, immichAlbums |-> <<>>],
      [library |-> {[Id |-> MediaAt(1), OriginalFileName |-> DerivedName(1)],
                    [Id |-> MediaAt(2), OriginalFileName |-> ForeignName]},
       immichAlbums |-> <<{MediaAt(1)}>>],
      [library |-> {[Id |-> MediaAt(2), OriginalFileName |-> ForeignName]},
       immichAlbums |-> <<{}>>] }

WorkerChoices == {0, 2, MaxWorkers}

\* ------------------------------------------------------------------- Init
NoResult == Result(EmptyID, FALSE, "none")

PassInit ==
    /\ pc = "scrape"
    /\ album = <<>>
    /\ albumId = EmptyID
    /\ existingFiles = NoFiles
    /\ numWorkers = 0
    /\ jobs = <<>> /\ jobsClosed = FALSE /\ fed = 0
    /\ results = <<>> /\ resultsClosed = FALSE
    /\ wpc = [w \in Workers |-> "unstarted"]
    /\ wjob = [w \in Workers |-> 0]
    /\ wvideo = [w \in Workers |-> FALSE]
    /\ wext = [w \in Workers |-> <<>>]
    /\ wres = [w \in Workers |-> NoResult]
    /\ tally = EmptyTally
    /\ addCalls = <<>>

HistInit ==
    /\ taken = [i \in Items |-> 0]
    /\ headCalls = [i \in Items |-> 0]
    /\ getCalls = [i \in Items |-> 0]
    /\ uploadCalls = [i \in Items |-> 0]
    /\ probedVideo = [i \in Items |-> FALSE]
    /\ buffered = [i \in Items |-> FALSE]
    /\ outcomes = [i \in Items |-> <<>>]
    /\ dupReported = {}

DoInit ==
    /\ doPc = "idle" /\ doI = 0 /\ doResp = 0 /\ doErr = FALSE
    /\ doTrace = <<>> /\ doSlept = <<>>

\* a response of the media host: status and Content-Type; status 0 is no response
NoMediaResp == [status |-> 0, ct |-> ""]
NoReturn == [err |-> FALSE, isVideo |-> FALSE, ext |-> <<>>, body |-> FALSE]

DmInit ==
    /\ dmPc = "probe" /\ dmProbe = NoMediaResp /\ dmFetch = NoMediaResp
    /\ dmRet = NoReturn

Sources == 1..MaxSources

\* the schedule as initialised at time 0 (app.go 85-89)
RunStart ==
    /\ nextRun = [k \in Sources |-> 0]
    /\ runPos = 1 /\ runPc = "check"
    /\ active = [k \in Sources |-> 0]
    /\ passPc = [k \in Sources |-> "idle"]
    /\ passFailed = [k \in Sources |-> FALSE]
    /\ passUploads = [k \in Sources |-> 0]
    /\ passAdds = [k \in Sources |-> 0]
    /\ checkedAt = [k \in Sources |-> -1]
    /\ roundRan = {}
    /\ lastEnd = [k \in Sources |-> -1]
    /\ attempts = [k \in Sources |-> 0]

RunInit == clock = 0 /\ RunStart

RunCfgAtRest == [interval |-> [k \in Sources |-> "1m"], albumWorkers |-> 1]

\* the pure functions at rest
TsInit ==
    /\ tsItem = <<>> /\ tsNow = NowBase /\ tsOut = ZeroTime /\ tsPc = "done"
ScInit ==
    /\ page = [title |-> <<>>, list |-> <<>>] /\ scNow = NowBase /\ scOut = <<>>
NmInit ==
    /\ nmId = <<>> /\ nmCt = "" /\ nmPc = "done" /\ nmName = <<>> /\ nmKey = <<>>
NoPayload == [err |-> "nil", payload |-> <<>>]
BsInit ==
    /\ bsText = <<>> /\ bsPc = "done" /\ bsOut = NoPayload
PureInit == TsInit /\ ScInit /\ NmInit /\ BsInit

AuxInit == DmInit /\ RunInit /\ runCfg = RunCfgAtRest /\ PureInit

\* one pass of one album, from any of the destination scenarios
Init ==
    /\ cfg \in [Workers : WorkerChoices, StrictMetadata : BOOLEAN, SkipVideos : BOOLEAN]
    /\ passLimit = 1 /\ passNo = 1
    /\ \E d \in DestScenarios : library = d.library /\ immichAlbums = d.immichAlbums
    /\ PassInit /\ HistInit /\ DoInit /\ AuxInit
    /\ uploadedOK = {} /\ reuploaded = {}

\* ---------------------------------------------------------- processAlbum
\* googlephotos.ScrapeAlbum and the empty-album return (app.go 122-137)
ScrapeAlbum ==
    /\ pc = "scrape"
    /\ \E r \in {"err", "empty", "ok"} :
         IF r = "ok"
         THEN album' = SourcePhotos /\ pc' = "resolve"
         ELSE album' = <<>> /\ pc' = "aborted"
    /\ UNCHANGED <<cfg, passLimit, passNo, destVars, albumId, existingFiles, numWorkers,
                   jobs, jobsClosed, fed, results, resultsClosed, wpc, wjob, wvideo,
                   wext, wres, tally, addCalls, histVars, uploadedOK, reuploaded, doVars, auxVars>>

\* resolve the Immich album id: GetAlbums by title, else CreateAlbum
\* (app.go 139-162); a configured ImmichAlbumID behaves as a found album
ResolveAlbum ==
    /\ pc = "resolve"
    /\ \E getOk \in BOOLEAN, createOk \in BOOLEAN :
         IF getOk /\ Len(immichAlbums) > 0
         THEN albumId' = 1 /\ UNCHANGED immichAlbums
         ELSE IF createOk /\ Len(immichAlbums) < MaxAlbums
         THEN /\ immichAlbums' = Append(immichAlbums, {})
              /\ albumId' = Len(immichAlbums) + 1
         ELSE albumId' = EmptyID /\ UNCHANGED immichAlbums
    /\ pc' = "prefetch"
    /\ UNCHANGED <<cfg, passLimit, passNo, library, album, existingFiles, numWorkers,
                   jobs, jobsClosed, fed, results, resultsClosed, wpc, wjob, wvideo,
                   wext, wres, tally, addCalls, histVars, uploadedOK, reuploaded, doVars, auxVars>>

\* pre-fetch the album's assets into existingFiles (app.go 164-178)
PrefetchAssets ==
    /\ pc = "prefetch"
    /\ IF albumId # EmptyID
       THEN \E ok \in BOOLEAN :
              existingFiles' = IF ok
                               THEN BuildExistingFiles(AlbumAssets(library, immichAlbums, albumId))
                               ELSE NoFiles
       ELSE existingFiles' = NoFiles
    /\ pc' = "start"
    /\ UNCHANGED <<cfg, passLimit, passNo, destVars, album, albumId, numWorkers,
                   jobs, jobsClosed, fed, results, resultsClosed, wpc, wjob, wvideo,
                   wext, wres, tally, addCalls, histVars, uploadedOK, reuploaded, doVars, auxVars>>

\* make the channels and start numWorkers goroutines (app.go 180-211)
StartWorkers ==
    /\ pc = "start"
    /\ numWorkers' = ClampWorkers(cfg.Workers, Len(album))
    /\ wpc' = [w \in Workers |-> IF w <= numWorkers' THEN "recv" ELSE "unstarted"]
    /\ pc' = "feed"
    /\ UNCHANGED <<cfg, passLimit, passNo, destVars, album, albumId, existingFiles,
                   jobs, jobsClosed, fed, results, resultsClosed, wjob, wvideo,
                   wext, wres, tally, addCalls, histVars, uploadedOK, reuploaded, doVars, auxVars>>

\* jobs <- p for the next photo; the channel holds total entries (app.go 213-215)
FeedJob ==
    /\ pc = "feed"
    /\ fed < Len(album)
    /\ Len(jobs) < Len(album)
    /\ jobs' = Append(jobs, fed + 1)
    /\ fed' = fed + 1
    /\ UNCHANGED <<cfg, passLimit, passNo, destVars, pc, album, albumId, existingFiles,
                   numWorkers, jobsClosed, results, resultsClosed, wpc, wjob, wvideo,
                   wext, wres, tally, addCalls, histVars, uploadedOK, reuploaded, doVars, auxVars>>

\* close(jobs) (app.go 216)
CloseJobs ==
    /\ pc = "feed"
    /\ fed = Len(album)
    /\ jobsClosed' = TRUE
    /\ pc' = "wait"
    /\ UNCHANGED <<cfg, passLimit, passNo, destVars, album, albumId, existingFiles,
                   numWorkers, jobs, fed, results, resultsClosed, wpc, wjob, wvideo,
                   wext, wres, tally, addCalls, histVars, uploadedOK, reuploaded, doVars, auxVars>>

\* bug variant: the main goroutine does not wait for the workers
AllExited_noWait(wpcs, n) == TRUE

\* the WaitGroup counter is zero: each of the n workers has called wg.Done()
\* (app.go 203-205, 218)
AllExited(wpcs, n) == \A w \in Workers : w <= n => wpcs[w] = "exited"

\* wg.Wait() returns once every worker has exited; close(results) (app.go 218-219)
WaitWorkers ==
    /\ pc = "wait"
    /\ AllExited(wpc, numWorkers)
    /\ resultsClosed' = TRUE
    /\ pc' = "collect"
    /\ UNCHANGED <<cfg, passLimit, passNo, destVars, album, albumId, existingFiles,
                   numWorkers, jobs, jobsClosed, fed, results, wpc, wjob, wvideo,
                   wext, wres, tally, addCalls, histVars, uploadedOK, reuploaded, doVars, auxVars>>

\* for res := range results (app.go 221-236)
CollectResults ==
    /\ pc = "collect"
    /\ tally' = CollectAll(EmptyTally, results)
    /\ results' = <<>>
    /\ pc' = "add"
    /\ UNCHANGED <<cfg, passLimit, passNo, destVars, album, albumId, existingFiles,
                   numWorkers, jobs, jobsClosed, fed, resultsClosed, wpc, wjob, wvideo,
                   wext, wres, addCalls, histVars, uploadedOK, reuploaded, doVars, auxVars>>

\* the batched AddAssetsToAlbum call and the summary (app.go 238-245)
AddAssetsToAlbum ==
    /\ pc = "add"
    /\ IF albumId # EmptyID /\ Len(tally.newAssetIds) > 0
       THEN /\ addCalls' = Append(addCalls, tally.newAssetIds)
            /\ \E ok \in BOOLEAN :
                 immichAlbums' =
                    IF ok
                    THEN [immichAlbums EXCEPT ![albumId] =
                            @ \cup {tally.newAssetIds[k] : k \in 1..Len(tally.newAssetIds)}]
                    ELSE immichAlbums
       ELSE UNCHANGED <<addCalls, immichAlbums>>
    /\ pc' = "done"
    /\ UNCHANGED <<cfg, passLimit, passNo, library, album, albumId, existingFiles,
                   numWorkers, jobs, jobsClosed, fed, results, resultsClosed, wpc, wjob,
                   wvideo, wext, wres, tally, histVars, uploadedOK, reuploaded, doVars, auxVars>>

\* ------------------------------------------------------ worker goroutines
\* bug variant: a receive leaves the entry in the queue
JobsAfterRecv_keep(q) == q

\* a receive from jobs removes the entry received (app.go 206)
JobsAfterRecv(q) == Tail(q)

\* bug variant: a worker stops at the first failed item
AfterResult_stopOnError(res) == IF res.Error # "nil" THEN "exited" ELSE "recv"

\* the range loop goes on to the next job after every result (app.go 206-209)
AfterResult(res) == "recv"

mainUnchanged == <<cfg, passLimit, passNo, pc, album, albumId, numWorkers,
                   jobsClosed, fed, resultsClosed, tally, addCalls, immichAlbums, doVars, auxVars>>

\* p := <-jobs, then processItem up to its first network call (app.go 206-263)
WorkerRecv(w) ==
    /\ wpc[w] = "recv"
    /\ jobs # <<>>
    /\ LET i == Head(jobs)
           p == album[i]
       IN  /\ jobs' = JobsAfterRecv(jobs)
           /\ taken' = [taken EXCEPT ![i] = @ + 1]
           /\ wjob' = [wjob EXCEPT ![w] = i]
           /\ IF AlreadyInAlbum(p, existingFiles) \/ StrictSkip(cfg, p)
              THEN /\ wres' = [wres EXCEPT ![w] = Skipped]
                   /\ wpc' = [wpc EXCEPT ![w] = "send"]
              ELSE /\ wpc' = [wpc EXCEPT ![w] = "head"]
                   /\ UNCHANGED wres
    /\ UNCHANGED <<mainUnchanged, existingFiles, library, results, wvideo, wext, headCalls, getCalls,
                   uploadCalls, probedVideo, buffered, outcomes, dupReported, uploadedOK,
                   reuploaded>>

\* the range over jobs ends when the channel is closed and drained; wg.Done()
WorkerExit(w) ==
    /\ wpc[w] = "recv"
    /\ jobs = <<>>
    /\ jobsClosed
    /\ wpc' = [wpc EXCEPT ![w] = "exited"]
    /\ UNCHANGED <<mainUnchanged, existingFiles, library, jobs, results, wjob, wvideo, wext, wres,
                   histVars, uploadedOK, reuploaded>>

DownloadError == Result(EmptyID, FALSE, "download")

\* DownloadMedia: the HEAD probe of baseUrl+"=d" (scraper.go 299-306)
ProbeHead(w) ==
    /\ wpc[w] = "head"
    /\ headCalls' = [headCalls EXCEPT ![wjob[w]] = @ + 1]
    /\ \E r \in {"err", ContentTypeAt(album[wjob[w]].URL)} :
         IF r = "err"
         THEN /\ wres' = [wres EXCEPT ![w] = DownloadError]
              /\ wpc' = [wpc EXCEPT ![w] = "send"]
              /\ UNCHANGED <<wvideo, probedVideo>>
         ELSE /\ wvideo' = [wvideo EXCEPT ![w] = IsVideoType(r)]
              /\ probedVideo' = [probedVideo EXCEPT ![wjob[w]] = IsVideoType(r)]
              /\ wpc' = [wpc EXCEPT ![w] = "get"]
              /\ UNCHANGED wres
    /\ UNCHANGED <<mainUnchanged, existingFiles, library, jobs, results, wjob, wext, taken, getCalls,
                   uploadCalls, buffered, outcomes, dupReported, uploadedOK, reuploaded>>

\* DownloadMedia: the GET of "=dv" or "=d", buffered by io.ReadAll
\* (scraper.go 309-348), then the video check of processItem (app.go 268-278)
FetchMedia(w) ==
    /\ wpc[w] = "get"
    /\ getCalls' = [getCalls EXCEPT ![wjob[w]] = @ + 1]
    /\ \E r \in {"err", "status", "readerr", ContentTypeAt(album[wjob[w]].URL)} :
         IF r \in {"err", "status", "readerr"}
         THEN /\ wres' = [wres EXCEPT ![w] = DownloadError]
              /\ wpc' = [wpc EXCEPT ![w] = "send"]
              /\ UNCHANGED <<wext, buffered>>
         ELSE /\ buffered' = [buffered EXCEPT ![wjob[w]] = TRUE]
              /\ IF VideoSkip(cfg, wvideo[w])
                 THEN /\ wres' = [wres EXCEPT ![w] = Skipped]
                      /\ wpc' = [wpc EXCEPT ![w] = "send"]
                      /\ UNCHANGED wext
                 ELSE /\ wext' = [wext EXCEPT ![w] = extensionFromContentType(r)]
                      /\ wpc' = [wpc EXCEPT ![w] = "upload"]
                      /\ UNCHANGED wres
    /\ UNCHANGED <<mainUnchanged, existingFiles, library, jobs, results, wjob, wvideo, taken, headCalls,
                   uploadCalls, probedVideo, outcomes, dupReported, uploadedOK, reuploaded>>

\* bug variant: an uploaded item is entered in the index
IndexAfterUpload_insert(existing, base, id) ==
    [n \in DOMAIN existing \cup {base} |-> IF n = base THEN id ELSE existing[n]]

\* processItem only reads existingFiles (app.go 254); after an upload the
\* map is as it was (app.go 300-314)
IndexAfterUpload(existing, base, id) == existing

\* a.Client.UploadAssetStream and the rest of processItem (app.go 278-314).
\* The destination answers with an error, with an empty id, or stores the
\* bytes; bytes it already holds are reported as a duplicate of that asset.
Upload(w) ==
    /\ wpc[w] = "upload"
    /\ LET i == wjob[w]
           filename == BaseName(album[i].ID) \o wext[w]
           content == MediaAt(album[i].URL)
           known == \E a \in library : a.Id = content
       IN  /\ uploadCalls' = [uploadCalls EXCEPT ![i] = @ + 1]
           /\ reuploaded' = IF i \in uploadedOK THEN reuploaded \cup {i} ELSE reuploaded
           /\ \E r \in {"err", "emptyid", "ok"} :
                /\ wres' = [wres EXCEPT ![w] =
                              CASE r = "err" -> UploadResult(EmptyID, FALSE, TRUE)
                                [] r = "emptyid" -> UploadResult(EmptyID, FALSE, FALSE)
                                [] OTHER -> UploadResult(content, known, FALSE)]
                /\ library' = IF r = "ok" /\ ~known
                              THEN library \cup {[Id |-> content, OriginalFileName |-> filename]}
                              ELSE library
                /\ uploadedOK' = IF r = "ok" THEN uploadedOK \cup {i} ELSE uploadedOK
                /\ dupReported' = IF r = "ok" /\ known THEN dupReported \cup {i}
                                  ELSE dupReported
                /\ existingFiles' = IF r = "ok"
                                    THEN IndexAfterUpload(existingFiles,
                                                          BaseName(album[i].ID), content)
                                    ELSE existingFiles
    /\ wpc' = [wpc EXCEPT ![w] = "send"]
    /\ wext' = [wext EXCEPT ![w] = <<>>]
    /\ UNCHANGED <<mainUnchanged, jobs, results, wjob, wvideo, taken, headCalls, getCalls,
                   probedVideo, buffered, outcomes>>

\* bug variant: the results channel has no buffer
ResultsCap_unbuffered(total) == 0

\* make(chan processResult, total) (app.go 199)
ResultsCap(total) == total

\* results <- processResult{...}; the send blocks while the channel is full
\* (app.go 208)
WorkerSend(w) ==
    /\ wpc[w] = "send"
    /\ Len(results) < ResultsCap(Len(album))
    /\ results' = Append(results, wres[w])
    /\ outcomes' = [outcomes EXCEPT ![wjob[w]] = Append(@, wres[w])]
    /\ wpc' = [wpc EXCEPT ![w] = AfterResult(wres[w])]
    /\ wjob' = [wjob EXCEPT ![w] = 0]
    /\ wvideo' = [wvideo EXCEPT ![w] = FALSE]
    /\ wres' = [wres EXCEPT ![w] = NoResult]
    /\ UNCHANGED <<mainUnchanged, existingFiles, library, jobs, wext, taken, headCalls, getCalls,
                   uploadCalls, probedVideo, buffered, dupReported, uploadedOK, reuploaded>>

\* the scheduler calls processAlbum again for the same album (app.go 91-105)
NextPass ==
    /\ pc \in {"done", "aborted"}
    /\ passNo < passLimit
    /\ passNo' = passNo + 1
    /\ pc' = "scrape"
    /\ album' = <<>> /\ albumId' = EmptyID /\ existingFiles' = NoFiles
    /\ numWorkers' = 0
    /\ jobs' = <<>> /\ jobsClosed' = FALSE /\ fed' = 0
    /\ results' = <<>> /\ resultsClosed' = FALSE
    /\ wpc' = [w \in Workers |-> "unstarted"]
    /\ tally' = EmptyTally
    /\ addCalls' = <<>>
    /\ taken' = [i \in Items |-> 0]
    /\ headCalls' = [i \in Items |-> 0]
    /\ getCalls' = [i \in Items |-> 0]
    /\ uploadCalls' = [i \in Items |-> 0]
    /\ probedVideo' = [i \in Items |-> FALSE]
    /\ buffered' = [i \in Items |-> FALSE]
    /\ outcomes' = [i \in Items |-> <<>>]
    /\ dupReported' = {}
    /\ UNCHANGED <<cfg, passLimit, destVars, wjob, wvideo, wext, wres, uploadedOK,
                   reuploaded, doVars, auxVars>>

PassStep ==
    \/ ScrapeAlbum
    \/ ResolveAlbum
    \/ PrefetchAssets
    \/ StartWorkers
    \/ FeedJob
    \/ CloseJobs
    \/ WaitWorkers
    \/ CollectResults
    \/ AddAssetsToAlbum
    \/ \E w \in Workers : WorkerRecv(w)
    \/ \E w \in Workers : WorkerExit(w)
    \/ \E w \in Workers : ProbeHead(w)
    \/ \E w \in Workers : FetchMedia(w)
    \/ \E w \in Workers : Upload(w)
    \/ \E w \in Workers : WorkerSend(w)

Next == PassStep

Spec == Init /\ [][Next]_vars

\* repeated passes over the same album contents, from an empty destination
InitPasses ==
    /\ cfg \in [Workers : WorkerChoices, StrictMetadata : BOOLEAN, SkipVideos : BOOLEAN]
    /\ passLimit = MaxPasses /\ passNo = 1
    /\ library = {} /\ immichAlbums = <<>>
    /\ PassInit /\ HistInit /\ DoInit /\ AuxInit
    /\ uploadedOK = {} /\ reuploaded = {}

NextPasses == PassStep \/ NextPass

SpecPasses == InitPasses /\ [][NextPasses]_vars

\* -------------------------------------------------------------- Client.Do
\* maxRetries and backoff in milliseconds (client.go 53-54)
maxRetries == 5
backoff == 5000

\* a response: its status and its Retry-After header ("" when absent)
Statuses == {200, 404, 429}
RetryHints == {"", "2", "soon"}
Responses == [status : Statuses, retryAfter : RetryHints]
NilResp == [status |-> 0, retryAfter |-> ""]
\* the trace entry of an attempt that ended in a transport error
ErrResp == [status |-> -1, retryAfter |-> ""]

\* time.ParseDuration(retryAfter + "s") in milliseconds; -1 stands for an error
ParseDuration(h) == IF h = "2" THEN 2000 ELSE -1

\* bug variant: every error status is retried
IsThrottled_anyError(resp) == resp.status >= 400

\* resp.StatusCode == 429 (client.go 62)
IsThrottled(resp) == resp.status = 429

\* bug variant: off-by-one loop bound
LoopCond_inclusive(i) == i <= maxRetries

\* i < maxRetries (client.go 56)
LoopCond(i) == i < maxRetries

\* bug variant: the delay does not grow with the attempts
SleepTime_flat(i, resp) ==
    IF resp.retryAfter # "" /\ ParseDuration(resp.retryAfter) # -1
    THEN ParseDuration(resp.retryAfter)
    ELSE backoff

\* sleepTime after a 429 on the attempt with index i (client.go 65-72)
SleepTime(i, resp) ==
    IF resp.retryAfter # "" /\ ParseDuration(resp.retryAfter) # -1
    THEN ParseDuration(resp.retryAfter)
    ELSE backoff * (i + 1)

orchVars == <<cfg, passLimit, passNo, destVars, passVars, histVars, uploadedOK, reuploaded>>

\* the jitter sleep before the first attempt (client.go 47-48)
DoStart ==
    /\ doPc = "idle"
    /\ \E jitter \in {500, 1499} : doSlept' = <<jitter>>
    /\ doPc' = "loop"
    /\ doI' = 0
    /\ UNCHANGED <<doResp, doErr, doTrace, orchVars, auxVars>>

\* one iteration of the retry loop: c.client.Do(req) and what follows it
\* (client.go 56-81)
DoAttempt ==
    /\ doPc = "loop"
    /\ LoopCond(doI)
    /\ \/ \* transport error: return nil, err
          /\ doTrace' = Append(doTrace, ErrResp)
          /\ doResp' = NilResp /\ doErr' = TRUE
          /\ doPc' = "returned"
          /\ UNCHANGED <<doI, doSlept>>
       \/ \E resp \in Responses :
            /\ doTrace' = Append(doTrace, resp)
            /\ doResp' = resp /\ doErr' = FALSE
            /\ IF IsThrottled(resp)
               THEN /\ doSlept' = Append(doSlept, SleepTime(doI, resp))
                    /\ doI' = doI + 1
                    /\ UNCHANGED doPc
               ELSE /\ doPc' = "returned"
                    /\ UNCHANGED <<doI, doSlept>>
    /\ UNCHANGED <<orchVars, auxVars>>

\* the loop ran out of attempts: return resp, nil (client.go 83)
DoExhausted ==
    /\ doPc = "loop"
    /\ ~LoopCond(doI)
    /\ doPc' = "returned"
    /\ UNCHANGED <<doI, doResp, doErr, doTrace, doSlept, orchVars, auxVars>>

\* one fetch through Client.Do; the orchestrator is at rest
InitDo ==
    /\ cfg = [Workers |-> 0, StrictMetadata |-> FALSE, SkipVideos |-> FALSE]
    /\ passLimit = 1 /\ passNo = 1
    /\ library = {} /\ immichAlbums = <<>>
    /\ PassInit /\ HistInit /\ DoInit /\ AuxInit
    /\ uploadedOK = {} /\ reuploaded = {}

NextDo == DoStart \/ DoAttempt \/ DoExhausted

SpecDo == InitDo /\ [][NextDo]_vars

\* ---------------------------------------------------------- DownloadMedia
MediaStatuses == {200, 404, 429}
MediaTypes == {"image/jpeg", "video/mp4", "Video/x-foo", "text/html"}
MediaResponses == [status : MediaStatuses, ct : MediaTypes]

\* return nil, 0, "", false, err
DmError == [err |-> TRUE, isVideo |-> FALSE, ext |-> <<>>, body |-> FALSE]

\* resp.StatusCode != 200 after the GET (scraper.go 314, 334)
FetchStatusBad(resp) == resp.status # 200

restVars == <<orchVars, doVars, runVars, runHist, pureVars>>

\* client.Head(baseUrl + "=d") and the Content-Type test (scraper.go 299-306);
\* Client.Head returns the response of any status (client.go 37-44)
DmProbe ==
    /\ dmPc = "probe"
    /\ \/ /\ dmRet' = DmError
          /\ dmPc' = "returned"
          /\ UNCHANGED dmProbe
       \/ \E resp \in MediaResponses :
            /\ dmProbe' = resp
            /\ dmPc' = "fetch"
            /\ UNCHANGED dmRet
    /\ UNCHANGED <<dmFetch, restVars>>

\* client.Get of "=dv" for a video, of "=d" otherwise, the status test,
\* io.ReadAll and the extension (scraper.go 308-348)
DmFetch ==
    /\ dmPc = "fetch"
    /\ \/ \* transport error of Client.Get
          /\ dmRet' = DmError
          /\ UNCHANGED dmFetch
       \/ \E resp \in MediaResponses, readOk \in BOOLEAN :
            /\ dmFetch' = resp
            /\ dmRet' = IF FetchStatusBad(resp) \/ ~readOk
                        THEN DmError
                        ELSE [err |-> FALSE, isVideo |-> IsVideoType(dmProbe.ct),
                              ext |-> extensionFromContentType(resp.ct), body |-> TRUE]
    /\ dmPc' = "returned"
    /\ UNCHANGED <<dmProbe, restVars>>

InitDownload == InitDo

NextDownload == DmProbe \/ DmFetch

SpecDownload == InitDownload /\ [][NextDownload]_vars

\* ----------------------------------------------------------------- App.Run
\* 24 * time.Hour in minutes (app.go 100)
DefaultInterval == 1440

IntervalChoices == {"1m", "", "0s", "x"}

\* time.ParseDuration(ac.SyncInterval) in minutes; -1 stands for an error
ParseInterval(str) ==
    CASE str = "1m" -> 1
      [] str = "0s" -> 0
      [] OTHER -> -1

\* bug variant: a zero interval is used as it is
IntervalOf_zeroKept(str) ==
    IF ParseInterval(str) = -1 THEN DefaultInterval ELSE ParseInterval(str)

\* the interval used for the next run (app.go 98-101)
IntervalOf(str) ==
    IF ParseInterval(str) = -1 \/ ParseInterval(str) = 0
    THEN DefaultInterval
    ELSE ParseInterval(str)

\* time.Now().After(nextRun[ac.URL]) (app.go 94)
Due(t, next) == t > next

\* bug variant: processAlbum is started without waiting for it
LoopAfterStart_async(k) == [pos |-> k + 1, pc |-> "check"]

\* a.processAlbum(ac) is a plain call: the loop is inside it until it returns
\* (app.go 95)
LoopAfterStart(k) == [pos |-> k, pc |-> "inPass"]

\* bug variant: a failed pass ends the round
LoopAfterPass_breakOnFail(k, failed) == IF failed THEN MaxSources + 1 ELSE k + 1

\* the range loop goes on with the next album whatever processAlbum did
\* (app.go 93-105)
LoopAfterPass(k, failed) == k + 1

dmRest == <<orchVars, doVars, dmVars, pureVars>>

\* the test of one album in the sync loop, and the call of processAlbum
\* (app.go 93-95)
RunCheck ==
    /\ runPc = "check"
    /\ runPos \in Sources
    /\ checkedAt' = [checkedAt EXCEPT ![runPos] = clock]
    /\ IF Due(clock, nextRun[runPos])
       THEN /\ active' = [active EXCEPT ![runPos] = @ + 1]
            /\ passPc' = [passPc EXCEPT ![runPos] = "scrape"]
            /\ passFailed' = [passFailed EXCEPT ![runPos] = FALSE]
            /\ passUploads' = [passUploads EXCEPT ![runPos] = 0]
            /\ passAdds' = [passAdds EXCEPT ![runPos] = 0]
            /\ attempts' = [attempts EXCEPT ![runPos] = @ + 1]
            /\ roundRan' = roundRan \cup {runPos}
            /\ runPos' = LoopAfterStart(runPos).pos
            /\ runPc' = LoopAfterStart(runPos).pc
       ELSE /\ runPos' = runPos + 1
            /\ UNCHANGED <<runPc, active, passPc, passFailed, passUploads, passAdds,
                           attempts, roundRan>>
    /\ UNCHANGED <<runCfg, clock, nextRun, lastEnd, dmRest>>

\* processAlbum: ScrapeAlbum and the return on its error (app.go 122-126);
\* the fetch takes no or some time
PassScrape(k) ==
    /\ passPc[k] = "scrape"
    /\ \E ok \in BOOLEAN :
         /\ passPc' = [passPc EXCEPT ![k] = IF ok THEN "work" ELSE "end"]
         /\ passFailed' = [passFailed EXCEPT ![k] = ~ok]
    /\ \E d \in 0..1 : clock + d <= MaxTime /\ clock' = clock + d
    /\ UNCHANGED <<runCfg, nextRun, runPos, runPc, active, passUploads, passAdds,
                   checkedAt, roundRan, lastEnd, attempts, dmRest>>

\* processAlbum: the items and the membership call (app.go 128-245)
PassWork(k) ==
    /\ passPc[k] = "work"
    /\ \E n \in 0..1, a \in 0..1 :
         /\ passUploads' = [passUploads EXCEPT ![k] = n]
         /\ passAdds' = [passAdds EXCEPT ![k] = a]
    /\ passPc' = [passPc EXCEPT ![k] = "end"]
    /\ \E d \in 0..1 : clock + d <= MaxTime /\ clock' = clock + d
    /\ UNCHANGED <<runCfg, nextRun, runPos, runPc, active, passFailed,
                   checkedAt, roundRan, lastEnd, attempts, dmRest>>

\* processAlbum returns; the next run is scheduled (app.go 97-103)
PassReturn(k) ==
    /\ passPc[k] = "end"
    /\ passPc' = [passPc EXCEPT ![k] = "idle"]
    /\ active' = [active EXCEPT ![k] = @ - 1]
    /\ nextRun' = [nextRun EXCEPT ![k] = clock + IntervalOf(runCfg.interval[k])]
    /\ lastEnd' = [lastEnd EXCEPT ![k] = clock]
    /\ IF runPc = "inPass" /\ runPos = k
       THEN runPos' = LoopAfterPass(k, passFailed[k]) /\ runPc' = "check"
       ELSE UNCHANGED <<runPos, runPc>>
    /\ UNCHANGED <<runCfg, clock, passFailed, passUploads, passAdds, checkedAt, roundRan,
                   attempts, dmRest>>

\* time.Sleep(1 * time.Minute), then the next round (app.go 107-108)
RunSleep ==
    /\ runPc = "check"
    /\ runPos = MaxSources + 1
    /\ clock < MaxTime
    /\ clock' = clock + 1
    /\ runPos' = 1
    /\ checkedAt' = [k \in Sources |-> -1]
    /\ roundRan' = {}
    /\ UNCHANGED <<runCfg, runPc, nextRun, active, passPc, passFailed, passUploads,
                   passAdds, lastEnd, attempts, dmRest>>

\* the scheduler with every configuration of intervals; the loop is entered
\* at the time the schedule was initialised or later
InitRun ==
    /\ clock \in 0..1
    /\ cfg = [Workers |-> 0, StrictMetadata |-> FALSE, SkipVideos |-> FALSE]
    /\ passLimit = 1 /\ passNo = 1
    /\ library = {} /\ immichAlbums = <<>>
    /\ PassInit /\ HistInit /\ DoInit /\ DmInit /\ PureInit
    /\ uploadedOK = {} /\ reuploaded = {}
    /\ RunStart
    /\ runCfg \in [interval : [Sources -> IntervalChoices], albumWorkers : 1..MaxAlbumWorkers]

NextRun ==
    \/ RunCheck
    \/ RunSleep
    \/ \E k \in Sources : PassScrape(k)
    \/ \E k \in Sources : PassWork(k)
    \/ \E k \in Sources : PassReturn(k)

SpecRun == InitRun /\ [][NextRun]_vars

\* one pass under a scheduler that runs some goroutine that can take a step:
\* no call blocks forever, no step is put off forever. The two skip policies
\* are off; an item is skipped when the index holds it.
InitLive ==
    /\ cfg \in [Workers : WorkerChoices, StrictMetadata : {FALSE}, SkipVideos : {FALSE}]
    /\ passLimit = 1 /\ passNo = 1
    /\ \E d \in DestScenarios : library = d.library /\ immichAlbums = d.immichAlbums
    /\ PassInit /\ HistInit /\ DoInit /\ AuxInit
    /\ uploadedOK = {} /\ reuploaded = {}

NextLive == PassStep

SpecLive == InitLive /\ [][NextLive]_vars /\ WF_vars(NextLive)

\* ------------------------------------------------- the functions on their own
progVars == <<orchVars, doVars, dmVars, runVars, runHist>>

ProgInit ==
    /\ cfg = [Workers |-> 0, StrictMetadata |-> FALSE, SkipVideos |-> FALSE]
    /\ passLimit = 1 /\ passNo = 1
    /\ library = {} /\ immichAlbums = <<>>
    /\ PassInit /\ HistInit /\ DoInit /\ DmInit /\ RunInit /\ runCfg = RunCfgAtRest
    /\ uploadedOK = {} /\ reuploaded = {}

\* the scalars and the slots of the item arrays
Scalars ==
    {Num(n) : n \in TsValues}
        \cup {NumFrac(Floor), NumFrac(Floor + 1)}
        \cup {Str(ToString(Floor + 1)), Str("x"), Null}

Slots ==
    {Direct(x) : x \in Scalars} \cup {Arr(<<x>>) : x \in Scalars}
        \cup {Arr(<<>>), Arr(<<Null, Num(Floor + 1)>>)}

\* the id and the media array; in the second pair both hold a plausible time
HeadSlots ==
    { <<Direct(Str("id")), Arr(<<Str("u")>>)>>,
      <<Direct(Str(ToString(Floor + 1))), Arr(<<Num(Floor + 1)>>)>> }

ItemArrs ==
    {h \o t : h \in HeadSlots,
              t \in UNION {[1..n -> Slots] : n \in 0..(MaxSlots - 2)}}

InitTs ==
    /\ ProgInit /\ ScInit /\ NmInit /\ BsInit
    /\ tsItem \in ItemArrs
    /\ tsNow = NowBase /\ tsOut = ZeroTime /\ tsPc = "call"

\* extractTimestamp(itemArr, extractInt) at any reading of the clock
ExtractTimestamp ==
    /\ tsPc = "call"
    /\ \E now \in Nows :
          /\ tsNow' = now
          /\ tsOut' = extractTimestamp(tsItem, now)
    /\ tsPc' = "done"
    /\ UNCHANGED <<tsItem, progVars, scVars, nmVars, bsVars>>

NextTs == ExtractTimestamp

SpecTs == InitTs /\ [][NextTs]_vars

\* pages: a title and the list of item arrays of the payload
TitleChoices ==
    { <<>>, <<"A">>, <<"A", " ", "|", "F">>, <<"A", " ", "@">>, <<"&amp;">> }

ItemChoices ==
    { <<Direct(Str("p")), Arr(<<Str("u"), Num(4), Num(3)>>), Arr(<<Num(Floor + 1)>>)>>,
      <<Direct(Str("q")), Arr(<<Str("v")>>), Direct(Num(NowBase + Day)), Direct(Str("cap"))>>,
      <<Direct(Str("r")), Arr(<<Str("")>>), Direct(Num(NowBase))>>,
      <<Direct(Str("s"))>>,
      <<Direct(Str("t")), Arr(<<Str("w")>>), Arr(<<Num(NowBase)>>), Direct(Num(NowBase + Day))>>,
      <<Direct(Str("z")), Arr(<<Str("y")>>)>> }

Pages ==
    [title : TitleChoices,
     list : UNION {[1..n -> ItemChoices] : n \in 0..MaxItems}]

InitScrape ==
    /\ ProgInit /\ TsInit /\ NmInit /\ BsInit
    /\ page \in Pages
    /\ scNow = NowBase /\ scOut = <<>>

\* one run of the extraction on the page (scraper.go 47-220)
ScrapePage ==
    /\ Len(scOut) < MaxScrapes
    /\ scOut' = Append(scOut, [at |-> scNow, album |-> ParseAlbum(page, scNow)])
    /\ UNCHANGED <<page, scNow, progVars, tsVars, nmVars, bsVars>>

\* time passes between two runs
ClockAdvance ==
    /\ scNow < NowBase + MaxSkew
    /\ scNow' = scNow + 1
    /\ UNCHANGED <<page, scOut, progVars, tsVars, nmVars, bsVars>>

NextScrape == ScrapePage \/ ClockAdvance

SpecScrape == InitScrape /\ [][NextScrape]_vars

\* item ids and the Content-Types of their media
IdAlphabet == {"a", "/", ":", ".", "_"}
Ids == UNION {[1..n -> IdAlphabet] : n \in 0..MaxIdLen}
NameTypes == {"image/jpeg", "image/png", "video/mp4", "Video/x-foo", "text/html"}

\* filename := baseName + ext (app.go 278)
FileName(id, ct) == BaseName(id) \o extensionFromContentType(ct)

InitNames ==
    /\ ProgInit /\ TsInit /\ ScInit /\ BsInit
    /\ nmId \in Ids /\ nmCt \in NameTypes
    /\ nmPc = "derive" /\ nmName = <<>> /\ nmKey = <<>>

\* processItem names the upload (app.go 249-251, 278)
DeriveName ==
    /\ nmPc = "derive"
    /\ nmName' = FileName(nmId, nmCt)
    /\ nmPc' = "stored"
    /\ UNCHANGED <<nmId, nmCt, nmKey, progVars, tsVars, scVars, bsVars>>

\* the next pass builds the key from the stored name (app.go 169-174)
IndexName ==
    /\ nmPc = "stored"
    /\ nmKey' = StripExt(nmName)
    /\ nmPc' = "done"
    /\ UNCHANGED <<nmId, nmCt, nmName, progVars, tsVars, scVars, bsVars>>

NextNames == DeriveName \/ IndexName

SpecNames == InitNames /\ [][NextNames]_vars


\* ------------------------------------------------------- the payload scan
\* the characters of a page that matter to the scan; "a" is any other one
PageAlphabet == {"[", "]", "\"", "\\", "a"}
PageTexts == UNION {[1..n -> PageAlphabet] : n \in 0..MaxPageLen}

\* the first '[' at or after i, 0 for jsonStart == -1 (scraper.go 76-85)
RECURSIVE FirstBracket(_, _)
FirstBracket(h, i) ==
    IF i > Len(h) THEN 0
    ELSE IF h[i] = "[" THEN i
    ELSE FirstBracket(h, i + 1)

\* bug variant: brackets inside strings are counted
CountsBracket_always(inString) == TRUE

\* if !inString (scraper.go 109)
CountsBracket(inString) == ~inString

\* the loop from i on with the flags as given; the index of the closing
\* bracket, 0 for jsonEnd == -1 (scraper.go 87-120)
RECURSIVE BalanceEnd(_, _, _, _, _)
BalanceEnd(h, i, balance, inString, escape) ==
    IF i > Len(h) THEN 0
    ELSE IF escape THEN BalanceEnd(h, i + 1, balance, inString, FALSE)
    ELSE IF h[i] = "\\" THEN BalanceEnd(h, i + 1, balance, inString, TRUE)
    ELSE IF h[i] = "\"" THEN BalanceEnd(h, i + 1, balance, ~inString, FALSE)
    ELSE IF CountsBracket(inString) /\ h[i] = "["
         THEN BalanceEnd(h, i + 1, balance + 1, inString, FALSE)
    ELSE IF CountsBracket(inString) /\ h[i] = "]"
         THEN IF balance - 1 = 0 THEN i
              ELSE BalanceEnd(h, i + 1, balance - 1, inString, FALSE)
    ELSE BalanceEnd(h, i + 1, balance, inString, FALSE)

\* jsonStr, or the error ScrapeAlbum returns in place of an album
\* (scraper.go 76-126)
ExtractPayload(h) ==
    IF FirstBracket(h, 1) = 0 THEN [err |-> "no start", payload |-> <<>>]
    ELSE IF BalanceEnd(h, FirstBracket(h, 1), 0, FALSE, FALSE) = 0
    THEN [err |-> "no end", payload |-> <<>>]
    ELSE [err |-> "nil",
          payload |-> SubSeq(h, FirstBracket(h, 1),
                             BalanceEnd(h, FirstBracket(h, 1), 0, FALSE, FALSE))]

InitScan ==
    /\ ProgInit /\ TsInit /\ ScInit /\ NmInit
    /\ bsText \in PageTexts
    /\ bsPc = "scan" /\ bsOut = NoPayload

\* the scan of the page text that follows the anchor
ScanPayload ==
    /\ bsPc = "scan"
    /\ bsOut' = ExtractPayload(bsText)
    /\ bsPc' = "done"
    /\ UNCHANGED <<bsText, progVars, tsVars, scVars, nmVars>>

NextScan == ScanPayload

SpecScan == InitScan /\ [][NextScan]_vars

\* ================================================================= claims
SeqToSet(q) == {q[k] : k \in 1..Len(q)}

\* items that have an outcome of the given kinds in this pass
ItemsWith(kinds) ==
    {i \in Items : Len(outcomes[i]) > 0 /\ OutcomeOf(outcomes[i][1]) \in kinds}

NoMediaCall(i) == headCalls[i] = 0 /\ getCalls[i] = 0 /\ uploadCalls[i] = 0

OnlySkipped(i) == \A k \in 1..Len(outcomes[i]) : outcomes[i][k] = Skipped

InIndex(i) == album # <<>> /\ BaseName(album[i].ID) \in DOMAIN existingFiles

\* C1: an item whose derived basename is a key of the existing-asset index
\* never causes a HEAD probe, a GET or an upload, and its outcome is Skipped
\* with no identifier.
C1_IndexHitSkips ==
    \A i \in Items :
        InIndex(i) =>
            /\ NoMediaCall(i)
            /\ OnlySkipped(i)
            /\ (pc = "done" => Len(outcomes[i]) = 1)

C1_Witness ==
    \E i \in Items : InIndex(i) /\ pc = "done" /\ outcomes[i] = <<Skipped>>

\* C2: every item is received from the work queue by exactly one worker and
\* produces exactly one outcome; N outcomes are collected.
C2_ExactlyOnce ==
    /\ \A i \in Items :
         /\ taken[i] <= 1
         /\ Len(outcomes[i]) <= taken[i]
         /\ Cardinality({w \in Workers : wjob[w] = i}) <= 1
    /\ pc \in {"add", "done"} =>
         /\ \A i \in Items : taken[i] = 1 /\ Len(outcomes[i]) = 1
         /\ tally.processed = Len(album)
         /\ Len(album) = MaxItems

C2_Witness ==
    /\ pc = "done" /\ numWorkers >= 2 /\ tally.processed = MaxItems
    /\ \A i \in Items : taken[i] = 1

\* C3: the identifiers passed to the add-to-album call are exactly the
\* identifiers the destination returned for the items whose outcome is
\* Uploaded or Deduplicated; Skipped and Failed items contribute none. The
\* call is made when an album id was resolved and that set is not empty.
C3_AddedIds ==
    LET touched == {MediaAt(album[i].URL) : i \in ItemsWith({"Uploaded", "Deduplicated"})}
    IN  /\ \A k \in 1..Len(addCalls) :
             /\ SeqToSet(addCalls[k]) = touched
             /\ EmptyID \notin SeqToSet(addCalls[k])
        /\ pc = "done" =>
             (Len(addCalls) = 1 <=> (albumId # EmptyID /\ touched # {}))

C3_Witness ==
    /\ pc = "done" /\ Len(addCalls) = 1
    /\ ItemsWith({"Uploaded"}) # {}
    /\ ItemsWith({"Failed", "Skipped"}) # {}

\* C4: once an upload of an item has succeeded, no later pass invokes the
\* upload collaborator for that item again.
C4_UploadAtMostOnce == reuploaded = {}

\* C5: a failed item does not abort the pass: it is recorded as Failed, every
\* other item still gets its outcome, and the pass goes on to the membership
\* update and the summary (it is never stuck before them).
C5_FailureIsLocal ==
    /\ pc = "done" =>
         /\ \A i \in Items : Len(outcomes[i]) = 1
         /\ tally.processed = Len(album)
         /\ tally.failed = Cardinality(ItemsWith({"Failed"}))
    /\ (ItemsWith({"Failed"}) # {} /\ pc # "done") => ENABLED PassStep

C5_Witness ==
    /\ pc = "done"
    /\ ItemsWith({"Failed"}) # {}
    /\ ItemsWith({"Uploaded", "Deduplicated"}) # {}
    /\ tally.failed >= 1

\* a response was received on the attempt with index k of the trace
Received(k) == doTrace[k].status # -1

\* C6: a fetch that got 429 on one or more attempts and then a response that
\* is not a 429 returns that response and no error.
C6_RetryThenReturn ==
    LET n == Len(doTrace) IN
    (/\ n >= 2
     /\ \A k \in 1..(n - 1) : doTrace[k].status = 429
     /\ Received(n) /\ doTrace[n].status # 429)
    => (doPc = "returned" /\ doResp = doTrace[n] /\ ~doErr)

C6_Witness ==
    /\ doPc = "returned" /\ Len(doTrace) = 3
    /\ doTrace[1].status = 429 /\ doTrace[2].status = 429
    /\ doTrace[3].status = 200 /\ doResp.status = 200 /\ ~doErr

\* C7: when every attempt gets a 429 the request is sent maxRetries times and
\* no more, and the last response is returned with no error.
C7_CeilingOnRetries ==
    /\ Len(doTrace) <= maxRetries
    /\ (doPc = "returned" /\ Len(doTrace) > 0
            /\ \A k \in 1..Len(doTrace) : doTrace[k].status = 429)
       => (Len(doTrace) = maxRetries /\ doResp = doTrace[maxRetries] /\ ~doErr)

C7_Witness ==
    /\ doPc = "returned" /\ Len(doTrace) = maxRetries
    /\ \A k \in 1..maxRetries : doTrace[k].status = 429
    /\ doResp.status = 429

\* C8: with the strict-metadata policy on, an item without takenAt is Skipped
\* and causes no HEAD probe, no GET and no upload.
C8_StrictSkips ==
    \A i \in Items :
        (cfg.StrictMetadata /\ album # <<>> /\ album[i].TakenAt = ZeroTime) =>
            /\ NoMediaCall(i)
            /\ OnlySkipped(i)
            /\ (pc = "done" => Len(outcomes[i]) = 1)

C8_Witness ==
    \E i \in Items :
        /\ cfg.StrictMetadata /\ pc = "done" /\ album[i].TakenAt = ZeroTime
        /\ ~InIndex(i) /\ outcomes[i] = <<Skipped>>

\* C9: with the video-skip policy on, an item probed as a video is Skipped,
\* never uploaded, and its bytes are never fetched or buffered after the probe.
C9_VideoNeverFetched ==
    \A i \in Items :
        (cfg.SkipVideos /\ probedVideo[i]) =>
            /\ getCalls[i] = 0 /\ ~buffered[i] /\ uploadCalls[i] = 0
            /\ OnlySkipped(i)

\* C10: an item the destination reports as already existing is not counted as
\* added, and its identifier is passed to the add-to-album call of the pass
\* (the call is made whenever an album id was resolved).
C10_DuplicateLinked ==
    pc = "done" =>
        /\ tally.added = Cardinality(ItemsWith({"Uploaded"}))
        /\ \A i \in dupReported :
             /\ i \notin ItemsWith({"Uploaded"})
             /\ albumId # EmptyID =>
                  /\ Len(addCalls) = 1
                  /\ MediaAt(album[i].URL) \in SeqToSet(addCalls[1])

C10_Witness ==
    /\ pc = "done" /\ Len(addCalls) = 1
    /\ \E i \in dupReported : MediaAt(album[i].URL) \in SeqToSet(addCalls[1])
    /\ tally.added = 1

\* C11: a non-success status at the probe stage or at the fetch stage makes
\* DownloadMedia return an error, with no byte stream.
C11_BadStatusIsError ==
    (dmPc = "returned" /\ (dmProbe.status \notin {0, 200} \/ dmFetch.status \notin {0, 200}))
    => (dmRet.err /\ ~dmRet.body)

\* C12: two passes of the same album never overlap, and the number of passes
\* in progress never exceeds the configured album concurrency.
C12_NoOverlap ==
    /\ \A k \in Sources : active[k] <= 1
    /\ Cardinality({k \in Sources : active[k] > 0}) <= runCfg.albumWorkers
    /\ \A k \in Sources : (active[k] = 0) <=> (passPc[k] = "idle")

C12_Witness ==
    /\ active[2] = 1 /\ active[1] = 0
    /\ attempts[1] = 1 /\ attempts[2] = 1
    /\ Due(clock, nextRun[1])

\* C13: a failed extraction ends only that album's pass, with no upload and no
\* membership call; the round still considers every other album and runs the
\* ones that are due; the failed album is scheduled one interval after its
\* pass ended and is started again by the loop once that time has passed.
C13_FailureIsPerAlbum ==
    /\ \A k \in Sources : passFailed[k] => (passUploads[k] = 0 /\ passAdds[k] = 0)
    /\ (runPos = MaxSources + 1) =>
         \A k \in Sources :
            /\ checkedAt[k] # -1
            /\ (k \notin roundRan => ~Due(checkedAt[k], nextRun[k]))
    /\ \A k \in Sources :
         (passFailed[k] /\ passPc[k] = "idle") =>
            /\ nextRun[k] = lastEnd[k] + IntervalOf(runCfg.interval[k])
            /\ (runPc = "check" /\ runPos = k /\ Due(clock, nextRun[k]))
                  => ENABLED RunCheck

C13_Witness ==
    /\ passFailed[1] /\ attempts[1] = 1 /\ lastEnd[1] # -1
    /\ 2 \in roundRan /\ passPc[2] = "end" /\ ~passFailed[2] /\ passUploads[2] = 1
    /\ checkedAt[1] # -1

C13_RetryWitness ==
    /\ attempts[1] = 2 /\ passPc[1] = "scrape" /\ lastEnd[1] # -1
    /\ clock > lastEnd[1] + 1

\* the scalar a slot offers to the heuristic: the slot itself, or the first
\* element of a nested array (Null when there is none)
Offered(slot) ==
    IF slot.isArr THEN (IF Len(slot.v) > 0 THEN slot.v[1] ELSE Null) ELSE slot.v[1]

\* x is an integer: a number without a fraction, or a string of digits
IsInteger(x) == (x.t = "num" /\ ~x.frac) \/ (x.t = "str" /\ ParseInt(x.s).ok)

\* x is a number, or a string of digits
IsNumeric(x) == x.t = "num" \/ (x.t = "str" /\ ParseInt(x.s).ok)

\* the whole part of a numeric x
WholePart(x) == IF x.t = "num" THEN x.n ELSE ParseInt(x.s).i

\* the times in range among the offered scalars that satisfy Accept
TimesInRange(itemArr, now, Accept(_)) ==
    {t \in {WholePart(Offered(itemArr[i])) :
               i \in {j \in 3..Len(itemArr) : Accept(Offered(itemArr[j]))}} :
        t > Floor /\ t < now + Day}

Earliest(S) == IF S = {} THEN ZeroTime ELSE CHOOSE t \in S : \A u \in S : t <= u

\* C14 as stated: takenAt is the smallest of the integer values in slots of
\* index 2 or more that lie after the floor and before now plus one day, and
\* is absent when there is none.
C14_OnlyIntegers ==
    tsPc = "done" => tsOut = Earliest(TimesInRange(tsItem, tsNow, IsInteger))

\* C14 amended: takenAt is the smallest of the numeric values in slots of
\* index 2 or more, a number with a fraction counting as its whole part, that
\* lie after the floor and before now plus one day; absent when there is none.
C14_OldestPlausible ==
    tsPc = "done" => tsOut = Earliest(TimesInRange(tsItem, tsNow, IsNumeric))

C14_Witness ==
    /\ tsPc = "done" /\ tsNow = NowBase /\ Len(tsItem) = 4
    /\ tsItem[1] = Direct(Str(ToString(Floor + 1)))
    /\ tsItem[3] = Direct(Num(NowBase + Day))
    /\ tsItem[4] = Arr(<<NumFrac(Floor + 1)>>)
    /\ tsOut = Floor + 1

\* C15: the key the index holds for a file stored under the derived name is
\* "gp_" followed by the id with '/' and ':' replaced by '_', which is the
\* baseName processItem looks up.
C15_KeyIsBaseName ==
    nmPc = "done" =>
        /\ nmKey = BaseName(nmId)
        /\ Len(nmKey) = Len(nmId) + 3
        /\ SubSeq(nmKey, 1, 3) = <<"g", "p", "_">>
        /\ \A i \in 1..Len(nmId) :
              nmKey[i + 3] = IF nmId[i] \in {"/", ":"} THEN "_" ELSE nmId[i]
        /\ AlreadyInAlbum([ID |-> nmId], [n \in {nmKey} |-> 1])

C15_Witness ==
    nmPc = "done" /\ nmId = <<".", "/">> /\ nmCt = "video/mp4"
        /\ nmName = <<"g", "p", "_", ".", "_", ".", "m", "p", "4">>

\* the album with every capture time removed
Undated(alb) ==
    [Title |-> alb.Title,
     Photos |-> [k \in 1..Len(alb.Photos) |-> [alb.Photos[k] EXCEPT !.TakenAt = ZeroTime]]]

\* some item of the page offers a time that is in range at time b, not at a
InWindow(pg, a, b) ==
    \E k \in 1..Len(pg.list) :
        TimesInRange(pg.list[k], b, IsNumeric) # TimesInRange(pg.list[k], a, IsNumeric)

Busy == {w \in Workers : wpc[w] \in {"head", "get", "upload"}}

\* C17: a pass makes at most one AddAssetsToAlbum call, and when it has been
\* made every worker has finished, no worker is resolving or uploading, and
\* the outcome of every item has been collected.
C17_AddAfterBarrier ==
    /\ Len(addCalls) <= 1
    /\ Len(addCalls) = 1 =>
          /\ \A w \in Workers : wpc[w] \in {"unstarted", "exited"}
          /\ Busy = {}
          /\ jobs = <<>> /\ results = <<>> /\ resultsClosed
          /\ tally.processed = Len(album)
          /\ \A i \in 1..Len(album) : Len(outcomes[i]) = 1

C17_Witness ==
    Len(addCalls) = 1 /\ numWorkers = 2 /\ Len(addCalls[1]) = 2 /\ tally.failed = 0

\* C18 as stated: Client.Do returns an error only when the attempts of the
\* retry loop are used up.
C18_TransportRetried ==
    (doPc = "returned" /\ doErr) => Len(doTrace) = maxRetries

\* C19: the workers started are the configured count, raised to 1 and capped
\* by the number of items, and never more items than that are being resolved
\* or uploaded at once.
C19_PoolBound ==
    /\ Cardinality(Busy) <= numWorkers
    /\ Cardinality({wjob[w] : w \in Busy}) <= numWorkers
    /\ pc \in {"feed", "wait", "collect", "add", "done"} =>
          /\ Cardinality({w \in Workers : wpc[w] # "unstarted"}) = numWorkers
          /\ numWorkers >= 1 /\ numWorkers <= Len(album)
          /\ (cfg.Workers >= 1 /\ cfg.Workers <= Len(album)) => numWorkers = cfg.Workers
          /\ cfg.Workers > Len(album) => numWorkers = Len(album)
          /\ cfg.Workers < 1 => numWorkers = 1

C19_Witness ==
    /\ cfg.Workers = MaxWorkers /\ numWorkers = Len(album) /\ numWorkers < cfg.Workers
    /\ Cardinality(Busy) = numWorkers /\ numWorkers >= 2

\* C20: no worker runs before existingFiles is built; from the start of the
\* workers to the end of the pass existingFiles is what the pre-fetch built
\* from the album, and no step changes it, an upload included.
C20_IndexReadOnly ==
    /\ [](/\ (\E w \in Workers : wpc[w] # "unstarted")
                => pc \in {"feed", "wait", "collect", "add", "done"}
          /\ (pc \in {"start", "feed", "wait", "collect"} /\ albumId # EmptyID)
                => existingFiles \in
                     {NoFiles,
                      BuildExistingFiles(AlbumAssets(library, immichAlbums, albumId))})
    /\ [][(pc \in {"start", "feed", "wait", "collect", "add"})
             => (existingFiles' = existingFiles)]_vars

C20_Witness ==
    /\ pc = "wait" /\ existingFiles # NoFiles
    /\ \E w \in Workers :
          /\ wpc[w] = "send" /\ wjob[w] \in uploadedOK
          /\ ~AlreadyInAlbum(album[wjob[w]], existingFiles)

\* position i of h follows a backslash that is not itself escaped (a: start)
RECURSIVE IsEscaped(_, _, _)
IsEscaped(h, a, i) == i > a /\ h[i - 1] = "\\" /\ ~IsEscaped(h, a, i - 1)

\* position i lies in a double-quoted span: an odd number of quotes that are
\* not escaped precede it
IsQuoted(h, a, i) ==
    Cardinality({j \in a..(i - 1) : h[j] = "\"" /\ ~IsEscaped(h, a, j)}) % 2 = 1

\* the brackets c up to position i that are neither escaped nor quoted
LiveBrackets(h, a, i, c) ==
    {j \in a..i : h[j] = c /\ ~IsEscaped(h, a, j) /\ ~IsQuoted(h, a, j)}

\* the positions where the depth is back at zero
DepthZero(h, a) ==
    {i \in a..Len(h) :
        /\ i \in LiveBrackets(h, a, i, "]")
        /\ Cardinality(LiveBrackets(h, a, i, "[")) = Cardinality(LiveBrackets(h, a, i, "]"))}

\* C21: the payload runs from the first '[' to the first ']' at which the
\* depth is back at zero, where brackets that are escaped by a backslash or
\* lie inside a double-quoted span do not count; when there is no such ']'
\* the scan ends in an error and yields no payload.
C21_QuoteAwareBalance ==
    (bsPc = "done" /\ FirstBracket(bsText, 1) # 0) =>
        LET a == FirstBracket(bsText, 1)
            Z == DepthZero(bsText, a)
        IN  IF Z = {}
            THEN bsOut.err = "no end" /\ bsOut.payload = <<>>
            ELSE /\ bsOut.err = "nil"
                 /\ bsOut.payload =
                       SubSeq(bsText, a, CHOOSE i \in Z : \A j \in Z : i <= j)

C21_Witness ==
    /\ bsPc = "done" /\ bsText = <<"[", "\"", "]", "\"", "]">>
    /\ bsOut.err = "nil" /\ bsOut.payload = bsText

C21_ErrorWitness ==
    /\ bsPc = "done" /\ bsText = <<"a", "[", "\"", "\\", "\"">>
    /\ bsOut.err = "no end"

IntervalSaid(str) == IF str = "1m" THEN 1 ELSE 24 * 60

\* C23: a pass of an album that had a pass before was started later than the
\* end of that pass plus the album's interval, whether that pass failed or
\* not; a missing, unparsable or zero interval counts as 24 hours.
C23_NotBeforeInterval ==
    \A k \in Sources :
        /\ (passPc[k] # "idle" /\ attempts[k] >= 2)
              => checkedAt[k] > lastEnd[k] + IntervalSaid(runCfg.interval[k])
        /\ (passPc[k] = "idle" /\ attempts[k] >= 1)
              => nextRun[k] = lastEnd[k] + IntervalSaid(runCfg.interval[k])

C23_Witness ==
    /\ attempts[1] = 2 /\ passPc[1] = "scrape" /\ checkedAt[1] = lastEnd[1] + 2
    /\ runCfg.interval[2] = "0s" /\ attempts[2] = 1 /\ lastEnd[2] # -1
    /\ clock > lastEnd[2] + 1

\* C24: a pass that found items goes on to its summary, with every worker
\* exited, the job queue drained and no result left unsent or uncollected.
C24_PassTerminates ==
    (pc = "resolve") ~>
        (/\ pc = "done"
         /\ \A w \in Workers : w <= numWorkers => wpc[w] = "exited"
         /\ jobsClosed /\ jobs = <<>> /\ results = <<>>
         /\ tally.processed = Len(album))

C24_Witness ==
    /\ pc = "done" /\ cfg.Workers = MaxWorkers /\ numWorkers = Len(album)
    /\ tally.processed = Len(album) /\ tally.added = Len(album)
    /\ \A w \in Workers : w <= numWorkers => wpc[w] = "exited"

\* the items of the album whose one outcome satisfies Is
CountOutcomes(Is(_)) ==
    Cardinality({i \in 1..Len(album) : Len(outcomes[i]) = 1 /\ Is(outcomes[i][1])})

IsFailed(res) == res.Error # "nil"
IsAdded(res) == res.Error = "nil" /\ res.WasUploaded
IsDeduplicated(res) == res.Error = "nil" /\ ~res.WasUploaded /\ res.ID # EmptyID
IsSkipped(res) == res.Error = "nil" /\ ~res.WasUploaded /\ res.ID = EmptyID

\* C25: at the summary the total is the number of items of the album, each
\* of added, skipped and failed counts the outcomes of its own kind, the
\* duplicates are in none of them, and the four kinds add up to the total.
C25_SummaryAddsUp ==
    pc \in {"add", "done"} =>
        /\ tally.processed = Len(album)
        /\ tally.added = CountOutcomes(IsAdded)
        /\ tally.skipped = CountOutcomes(IsSkipped)
        /\ tally.failed = CountOutcomes(IsFailed)
        /\ tally.added + tally.skipped + tally.failed + CountOutcomes(IsDeduplicated)
              = tally.processed

C25_Witness ==
    /\ pc = "done" /\ tally.processed = 2 /\ tally.added = 1
    /\ tally.skipped = 0 /\ tally.failed = 0
    /\ CountOutcomes(IsDeduplicated) = 1

====
